---- MODULE Spec2Model ----
(***************************************************************************)
(* A model of thinks::fmm (include/thinks/fastMarchingMethod.hpp): the     *)
(* narrow band store (a min-heap with an index-to-position map), the       *)
(* first-order upwind Eikonal solver, and the two drivers unsignedDistance *)
(* and signedDistance with their inside and outside sweeps.                *)
(*                                                                         *)
(* Numbers.  A distance of type T is held as an integer count of 1/Scale   *)
(* units.  The three coefficients of the solver's quadratic are held       *)
(* exactly, each over its own common denominator (see Coefficients), and   *)
(* its roots are rounded to the nearest 1/Scale.  Two values stand apart:  *)
(* DistMax is numeric_limits<T>::max() and NaN is quiet_NaN(); every       *)
(* comparison goes through FLt/FLe/FGe, which are false on NaN as the      *)
(* IEEE comparisons are.                                                   *)
(*                                                                         *)
(* Arrays.  std::array<.,N> a is the sequence <<a[0],...,a[N-1]>>, so the  *)
(* code's a[i] is a[i+1] here.  Buffers are sequences too: the cell with   *)
(* linear index k is buffer[k+1].  Heap positions are kept 0-based, as in  *)
(* index_to_pos_.                                                          *)
(***************************************************************************)
EXTENDS Integers, Sequences, FiniteSets, TLC

(***************************************************************************)
(* Number representation                                                   *)
(***************************************************************************)
Scale == 100
NaN == -2000000000
DistMax == 2000000000
EpsInv == 1000000000

Abs(x) == IF x < 0 THEN -x ELSE x

isnan(x) == x = NaN
FLt(x, y) == x # NaN /\ y # NaN /\ x < y
FLe(x, y) == x # NaN /\ y # NaN /\ x <= y
FGe(x, y) == x # NaN /\ y # NaN /\ x >= y
\* std::min(a, b) is (b < a) ? b : a, and std::max(a, b) is (a < b) ? b : a.
FMin(a, b) == IF FLt(b, a) THEN b ELSE a
FMax(a, b) == IF FLt(a, b) THEN b ELSE a
FMul(m, x) == IF x = NaN \/ m = NaN THEN NaN ELSE m * x
FAdd(x, y) == IF x = NaN \/ y = NaN THEN NaN ELSE x + y
fabs(x) == IF x = NaN THEN NaN ELSE Abs(x)

\* n / d rounded to the nearest integer (d # 0), halves away from zero.
RoundDiv(n, d) ==
  LET q == (2 * Abs(n) + Abs(d)) \div (2 * Abs(d))
  IN IF (n < 0) = (d < 0) THEN q ELSE -q

RECURSIVE SqrtSearch(_, _, _)
SqrtSearch(n, lo, hi) ==
  IF lo >= hi THEN lo
  ELSE LET mid == (lo + hi + 1) \div 2
       IN IF mid <= n \div mid THEN SqrtSearch(n, mid, hi)
          ELSE SqrtSearch(n, lo, mid - 1)

\* The integer nearest to the square root of n >= 0.
Sqrt(n) ==
  LET f == SqrtSearch(n, 0, 46340)
  IN IF n - f * f > f THEN f + 1 ELSE f

RECURSIVE Gcd(_, _)
Gcd(a, b) == IF b = 0 THEN a ELSE Gcd(b, a % b)
Lcm(a, b) == (a \div Gcd(a, b)) * b

RECURSIVE SeqLcm(_)
SeqLcm(s) == IF s = <<>> THEN 1 ELSE Lcm(Head(s), SeqLcm(Tail(s)))

RECURSIVE SeqProduct(_)
SeqProduct(s) == IF s = <<>> THEN 1 ELSE Head(s) * SeqProduct(Tail(s))

(***************************************************************************)
(* Grid helpers                                                            *)
(***************************************************************************)
\* Machine integers are held as their bytes, least significant first:
\* std::size_t has SizeOfSizeT of them and int SizeOfInt.
ByteRadix == 256
SizeOfSizeT == 8
SizeOfInt == 4

RECURSIVE ToBytes(_, _)
ToBytes(n, k) ==
  IF k = 0 THEN <<>>
  ELSE <<n % ByteRadix>> \o ToBytes(n \div ByteRadix, k - 1)

\* The number a std::size_t holds, where it is below 2^31 (-1 where not).
RECURSIVE BytesValue(_, _)
BytesValue(b, k) ==
  IF k > Len(b) THEN 0 ELSE b[k] + ByteRadix * BytesValue(b, k + 1)

SizeTValue(b) ==
  IF /\ \A k \in (SizeOfInt + 1)..SizeOfSizeT : b[k] = 0
     /\ b[SizeOfInt] < ByteRadix \div 2
  THEN BytesValue(SubSeq(b, 1, SizeOfInt), 1)
  ELSE -1

\* x[1] * y[p] + ... + x[p] * y[1], from the j-th term on.
RECURSIVE ColumnSum(_, _, _, _)
ColumnSum(x, y, p, j) ==
  IF j > p THEN 0 ELSE x[j] * y[p + 1 - j] + ColumnSum(x, y, p, j + 1)

RECURSIVE MultipliesFrom(_, _, _, _)
MultipliesFrom(x, y, p, carry) ==
  IF p > SizeOfSizeT THEN <<>>
  ELSE LET sum == carry + ColumnSum(x, y, p, 1)
       IN <<sum % ByteRadix>>
          \o MultipliesFrom(x, y, p + 1, sum \div ByteRadix)

\* std::multiplies<std::size_t>: the product modulo 2^64.
multiplies(x, y) == MultipliesFrom(x, y, 1, 0)

\* The conversion of an int to std::size_t extends its sign.
IntToSizeT(v) ==
  v \o [k \in 1..(SizeOfSizeT - SizeOfInt) |->
          IF v[SizeOfInt] >= ByteRadix \div 2 THEN ByteRadix - 1 ELSE 0]

\* The conversion of a std::size_t to int keeps the low bytes.
SizeTToInt(x) == SubSeq(x, 1, SizeOfInt)

\* std::accumulate with an int as the initial value: the accumulator is an
\* int, and each product is converted back into it.
RECURSIVE accumulate(_, _, _)
accumulate(a, k, init) ==
  IF k > Len(a) THEN init
  ELSE accumulate(a, k + 1,
                  SizeTToInt(multiplies(IntToSizeT(init),
                                        ToBytes(a[k], SizeOfSizeT))))

linearSize(a) == IntToSizeT(accumulate(a, 1, ToBytes(1, SizeOfInt)))

squared(x) == x * x

RECURSIVE squaredMagnitudeFrom(_, _)
squaredMagnitudeFrom(v, i) ==
  IF i > Len(v) THEN 0
  ELSE FAdd(FMul(v[i], v[i]), squaredMagnitudeFrom(v, i + 1))

squaredMagnitude(v) == squaredMagnitudeFrom(v, 1)

inside(index, size) ==
  \A i \in 1..Len(size) : 0 <= index[i] /\ index[i] < size[i]

\* strides_[i - 1] is the product of size_[0 .. i - 1].
Stride(size, i) == SeqProduct(SubSeq(size, 1, i - 1))

RECURSIVE linearIndexFrom(_, _, _)
linearIndexFrom(index, size, i) ==
  IF i > Len(size) THEN 0
  ELSE index[i] * Stride(size, i) + linearIndexFrom(index, size, i + 1)

linearIndex_(index, size) == linearIndexFrom(index, size, 1)

\* Grid::cell(index), read and written, on the buffer the grid views.
Cell(buffer, size, index) == buffer[linearIndex_(index, size) + 1]
SetCell(buffer, size, index, v) ==
  [buffer EXCEPT ![linearIndex_(index, size) + 1] = v]

\* Every index inside a grid of the given size.
RECURSIVE IndicesFrom(_, _)
IndicesFrom(size, i) ==
  IF i > Len(size) THEN {<<>>}
  ELSE {<<x>> \o rest : x \in 0..(size[i] - 1), rest \in IndicesFrom(size, i + 1)}

Indices(size) == IndicesFrom(size, 1)

\* Neighborhood<N>::offsets(): entry 2i is +e_i and entry 2i+1 is -e_i.
NeighborhoodOffsets(N) ==
  [m \in 1..(2 * N) |->
     [j \in 1..N |->
        IF j = (m + 1) \div 2 THEN (IF m % 2 = 1 THEN 1 ELSE -1) ELSE 0]]

IndexPlus(index, offset) == [k \in 1..Len(index) |-> index[k] + offset[k]]

(***************************************************************************)
(* NarrowBandStore: values_ is the heap array of <<distance, index>>       *)
(* pairs, index_to_pos_ the map from an index to its 0-based position.     *)
(* An operation yields the store after it, the exception it threw in err   *)
(* ("none" when it returned) and, for pop, the value returned.             *)
(***************************************************************************)
EmptyStore == [values_ |-> <<>>, index_to_pos_ |-> <<>>]

Store(values, map) == [values_ |-> values, index_to_pos_ |-> map]

empty(nb) == nb.values_ = <<>>

parent_pos_(child_pos) == (child_pos - 1) \div 2
left_child_pos_(parent_pos) == 2 * parent_pos + 1
right_child_pos_(parent_pos) == 2 * parent_pos + 2

swap_(nb, pos0, pos1) ==
  LET key0 == nb.values_[pos0 + 1][2]
      key1 == nb.values_[pos1 + 1][2]
      map1 == [nb.index_to_pos_ EXCEPT ![key0] = pos1]
      map2 == [map1 EXCEPT ![key1] = pos0]
      vals == [nb.values_ EXCEPT ![pos0 + 1] = nb.values_[pos1 + 1],
                                 ![pos1 + 1] = nb.values_[pos0 + 1]]
  IN Store(vals, map2)

RECURSIVE sift_up_(_, _)
sift_up_(nb, pos) ==
  IF pos = 0 THEN nb
  ELSE LET parent_pos == parent_pos_(pos)
           pos_value == nb.values_[pos + 1][1]
           parent_value == nb.values_[parent_pos + 1][1]
       IN IF FLt(pos_value, parent_value)
          THEN sift_up_(swap_(nb, pos, parent_pos), parent_pos)
          ELSE nb

RECURSIVE sift_down_(_, _)
sift_down_(nb, pos) ==
  LET left_pos == left_child_pos_(pos)
      right_pos == right_child_pos_(pos)
      max_pos == Len(nb.values_) - 1
  IN IF left_pos > max_pos THEN nb
     ELSE LET pos_value == nb.values_[pos + 1][1]
              left_value == nb.values_[left_pos + 1][1]
              min_pos1 == IF FLt(left_value, pos_value) THEN left_pos ELSE pos
              min_value == nb.values_[min_pos1 + 1][1]
              min_pos == IF right_pos <= max_pos
                            /\ FLt(nb.values_[right_pos + 1][1], min_value)
                         THEN right_pos ELSE min_pos1
          IN IF min_pos # pos
             THEN sift_down_(swap_(nb, min_pos, pos), min_pos)
             ELSE nb

Thrown(nb, e) == [nb |-> nb, err |-> e, ret |-> <<>>]
Returned(nb, r) == [nb |-> nb, err |-> "none", ret |-> r]

MapErase(map, key) == [k \in (DOMAIN map) \ {key} |-> map[k]]
MapInsert(map, key, v) ==
  [k \in (DOMAIN map) \cup {key} |-> IF k = key THEN v ELSE map[k]]

pop(nb) ==
  IF empty(nb) THEN Thrown(nb, "Empty")
  ELSE LET value == nb.values_[1]
           swapped == swap_(nb, 0, Len(nb.values_) - 1)
           erased == Store(SubSeq(swapped.values_, 1, Len(swapped.values_) - 1),
                           MapErase(swapped.index_to_pos_, value[2]))
       IN Returned(IF empty(erased) THEN erased ELSE sift_down_(erased, 0),
                   value)

insert(nb, value) ==
  IF value[2] \in DOMAIN nb.index_to_pos_ THEN Thrown(nb, "DuplicateIndex")
  ELSE LET pos == Len(nb.values_)
           pushed == Store(Append(nb.values_, value),
                           MapInsert(nb.index_to_pos_, value[2], pos))
       IN Returned(sift_up_(pushed, pos), <<>>)

\* increase_distance that accepts the distance the store already holds.
increase_distanceLt(nb, index, new_distance) ==
  IF index \notin DOMAIN nb.index_to_pos_ THEN Thrown(nb, "NotFound")
  ELSE LET pos == nb.index_to_pos_[index]
       IN IF FLt(new_distance, nb.values_[pos + 1][1])
          THEN Thrown(nb, "NotIncreasing")
          ELSE Returned(
                 sift_down_(Store([nb.values_ EXCEPT ![pos + 1][1] = new_distance],
                                  nb.index_to_pos_), pos),
                 <<>>)

increase_distance(nb, index, new_distance) ==
  IF index \notin DOMAIN nb.index_to_pos_ THEN Thrown(nb, "NotFound")
  ELSE LET pos == nb.index_to_pos_[index]
       IN IF FLe(new_distance, nb.values_[pos + 1][1])
          THEN Thrown(nb, "NotIncreasing")
          ELSE Returned(
                 sift_down_(Store([nb.values_ EXCEPT ![pos + 1][1] = new_distance],
                                  nb.index_to_pos_), pos),
                 <<>>)

\* decrease_distance taken for increase_distance.
decrease_distanceAsIncrease(nb, index, new_distance) ==
  increase_distance(nb, index, new_distance)

decrease_distance(nb, index, new_distance) ==
  IF index \notin DOMAIN nb.index_to_pos_ THEN Thrown(nb, "NotFound")
  ELSE LET pos == nb.index_to_pos_[index]
       IN IF FGe(new_distance, nb.values_[pos + 1][1])
          THEN Thrown(nb, "NotDecreasing")
          ELSE Returned(
                 sift_up_(Store([nb.values_ EXCEPT ![pos + 1][1] = new_distance],
                                nb.index_to_pos_), pos),
                 <<>>)

(***************************************************************************)
(* EikonalSolver                                                           *)
(***************************************************************************)
CellStates == {"Far", "NarrowBand", "Frozen"}

\* The smaller distance of the Frozen neighbours of index along axis i
\* (0-based), DistMax when there is none: the inner loop of solve.
MinFrozenNeighborDistance(index, i, size, distance_buffer, state_buffer) ==
  LET offsets == NeighborhoodOffsets(Len(size))
      Visit(m, j) ==
        LET neighbor_index == IndexPlus(index, offsets[2 * i + j + 1])
        IN IF inside(neighbor_index, size)
              /\ Cell(state_buffer, size, neighbor_index) = "Frozen"
           THEN FMin(m, Cell(distance_buffer, size, neighbor_index))
           ELSE m
  IN Visit(Visit(DistMax, 0), 1)

\* The common denominator of inv_dx_squared_[i] = 1 / dx[i]^2 and
\* inv_speed_squared_ = 1 / speed^2.
CoeffDen(dx, speed) ==
  SeqLcm([k \in 1..(Len(dx) + 1) |->
            IF k <= Len(dx) THEN squared(dx[k]) ELSE squared(speed)])

\* The array q of solve after its loop over the axes, as exact fractions:
\* q[0] = c / (den * Scale^2), q[1] = b / (den * Scale), q[2] = a / den.
RECURSIVE CoefficientsFrom(_, _, _, _, _, _, _)
CoefficientsFrom(q, i, index, size, dx, distance_buffer, state_buffer) ==
  IF i >= Len(size) THEN q
  ELSE LET u == MinFrozenNeighborDistance(index, i, size,
                                          distance_buffer, state_buffer)
           w == q.den \div squared(dx[i + 1])
           q1 == IF FLt(u, DistMax)
                 THEN [q EXCEPT !.c = @ + squared(u) * w,
                                !.b = @ + (-2) * u * w,
                                !.a = @ + w]
                 ELSE q
       IN CoefficientsFrom(q1, i + 1, index, size, dx,
                           distance_buffer, state_buffer)

Coefficients(index, size, dx, speed, distance_buffer, state_buffer) ==
  LET den == CoeffDen(dx, speed)
  IN CoefficientsFrom(
       [c |-> -(squared(Scale) * (den \div squared(speed))), b |-> 0, a |-> 0,
        den |-> den],
       0, index, size, dx, distance_buffer, state_buffer)

\* fabs(x) < eps for the fraction x = n / den, eps = 1 / EpsInv.
AbsLtEps(n, den) == Abs(n) <= (den - 1) \div EpsInv
\* x <= eps for the fraction x = n / den.
LeEps(n, den) == n <= den \div EpsInv

\* solveQuadratic_: the pair of roots, the larger first, NaN for none.
solveQuadratic_(q) ==
  IF AbsLtEps(q.a, q.den)
  THEN IF AbsLtEps(q.b, q.den * Scale)
       THEN <<NaN, NaN>>
       ELSE <<RoundDiv(-q.c, q.b), NaN>>
  ELSE IF AbsLtEps(q.b, q.den * Scale)
  THEN IF q.c > 0 THEN <<NaN, NaN>>
       ELSE LET r == Sqrt(RoundDiv(-q.c, q.a)) IN <<r, -r>>
  ELSE LET discriminant_squared == q.b * q.b - 4 * q.a * q.c
       IN IF LeEps(discriminant_squared, squared(q.den * Scale))
          THEN <<NaN, NaN>>
          ELSE LET discriminant == Sqrt(discriminant_squared)
                   num == IF q.b < 0 THEN -q.b + discriminant
                                     ELSE -q.b - discriminant
                   r0 == RoundDiv(num, 2 * q.a)
                   r1 == RoundDiv(2 * q.c, num)
               IN <<FMax(r0, r1), FMin(r0, r1)>>

solve(index, size, dx, speed, distance_buffer, state_buffer) ==
  solveQuadratic_(
    Coefficients(index, size, dx, speed, distance_buffer, state_buffer))[1]

\* The assertion of solve that a result r trips, if any.
SolveAsserts(r) ==
  IF isnan(r) THEN {"!isnan(r.first)"}
  ELSE IF ~FGe(r, 0) THEN {"r.first >= T(0)"}
  ELSE {}

(***************************************************************************)
(* Input validation.  A normal's components are counts of 1/Scale, like    *)
(* distances; spacings and the speed are whole numbers.                    *)
(***************************************************************************)
throwIfInvalidSize(size) == \E k \in 1..Len(size) : size[k] < 1

throwIfInvalidSpacing(dx) == \E k \in 1..Len(dx) : FLe(dx[k], 0)

throwIfInvalidSpeed(speed) == FLe(speed, 0)

throwIfSizeNotEqual(u, v, w) == Len(u) # Len(v) \/ Len(u) # Len(w)

throwIfInvalidIndex(indices, size) ==
  \E k \in 1..Len(indices) : ~inside(indices[k], size)

throwIfInvalidDistance(distances) ==
  \E k \in 1..Len(distances) : isnan(distances[k])

throwIfInvalidNormal(normals) ==
  \E k \in 1..Len(normals) :
     FLt(squaredMagnitude(normals[k]), squared(Scale) \div 4)

\* ValidationError with the distances checked before the indices.
ValidationErrorReordered(input) ==
  IF throwIfInvalidSize(input.size) THEN "InvalidSize"
  ELSE IF throwIfInvalidSpacing(input.dx) THEN "InvalidSpacing"
  ELSE IF throwIfInvalidSpeed(input.speed) THEN "InvalidSpeed"
  ELSE IF throwIfSizeNotEqual(input.frozen_indices, input.frozen_distances,
                              input.normals) THEN "SizeMismatch"
  ELSE IF throwIfInvalidDistance(input.frozen_distances)
       THEN "InvalidDistance"
  ELSE IF throwIfInvalidIndex(input.frozen_indices, input.size)
       THEN "InvalidIndex"
  ELSE IF input.fn = "signedDistance" /\ throwIfInvalidNormal(input.normals)
       THEN "InvalidNormal"
  ELSE "none"

\* The checks at the head of unsignedDistance and of signedDistance, in
\* their order: the kind of the first that throws, "none" when none does.
ValidationError(input) ==
  IF throwIfInvalidSize(input.size) THEN "InvalidSize"
  ELSE IF throwIfInvalidSpacing(input.dx) THEN "InvalidSpacing"
  ELSE IF throwIfInvalidSpeed(input.speed) THEN "InvalidSpeed"
  ELSE IF throwIfSizeNotEqual(input.frozen_indices, input.frozen_distances,
                              input.normals) THEN "SizeMismatch"
  ELSE IF throwIfInvalidIndex(input.frozen_indices, input.size)
       THEN "InvalidIndex"
  ELSE IF throwIfInvalidDistance(input.frozen_distances)
       THEN "InvalidDistance"
  ELSE IF input.fn = "signedDistance" /\ throwIfInvalidNormal(input.normals)
       THEN "InvalidNormal"
  ELSE "none"

(***************************************************************************)
(* Front initialisation and marching                                       *)
(***************************************************************************)
RECURSIVE initializeFrozenCellsFrom(_, _, _, _, _, _)
initializeFrozenCellsFrom(g, i, frozen_indices, frozen_distances, multiplier, size) ==
  IF i > Len(frozen_indices) THEN g
  ELSE initializeFrozenCellsFrom(
         [distance |-> SetCell(g.distance, size, frozen_indices[i],
                               FMul(multiplier, frozen_distances[i])),
          state |-> SetCell(g.state, size, frozen_indices[i], "Frozen")],
         i + 1, frozen_indices, frozen_distances, multiplier, size)

\* The distance and state buffers after initializeFrozenCells.
initializeFrozenCells(frozen_indices, frozen_distances, multiplier, size, distance_buffer, state_buffer) ==
  initializeFrozenCellsFrom([distance |-> distance_buffer, state |-> state_buffer],
                            1, frozen_indices, frozen_distances, multiplier, size)

RECURSIVE DotFrom(_, _, _, _)
DotFrom(m, normal, offset, i) ==
  IF i > Len(offset) THEN 0
  ELSE FAdd(FMul(FMul(m, normal[i]), offset[i]), DotFrom(m, normal, offset, i + 1))

\* NeighborPred with the outside sweep's lambda a copy of the inside
\* sweep's, normal flipped.
NeighborPredCopied(pred, normal, neighbor_offset) ==
  CASE pred = "inside" -> FGe(DotFrom(-1, normal, neighbor_offset, 1), 0)
    [] pred = "outside" -> FGe(DotFrom(-1, normal, neighbor_offset, 1), 0)
    [] pred = "march" -> TRUE

\* The three neighbour predicates: the inside sweep's lambda (normal
\* flipped), the outside sweep's lambda, and the march's, which is true.
NeighborPred(pred, normal, neighbor_offset) ==
  CASE pred = "inside" -> FGe(DotFrom(-1, normal, neighbor_offset, 1), 0)
    [] pred = "outside" -> FGe(DotFrom(1, normal, neighbor_offset, 1), 0)
    [] pred = "march" -> TRUE

\* UpdateNeighbor without the call of decrease_distance.
UpdateNeighborNoDecrease(st, m, index, normal, pred, size, dx, speed) ==
  LET neighbor_offset == NeighborhoodOffsets(Len(size))[m]
      neighbor_index == IndexPlus(index, neighbor_offset)
  IN IF st.err # "none" THEN st
     ELSE IF ~NeighborPred(pred, normal, neighbor_offset) THEN st
     ELSE IF ~inside(neighbor_index, size) THEN st
     ELSE LET neighbor_state == Cell(st.state, size, neighbor_index)
              distance == solve(neighbor_index, size, dx, speed,
                                st.distance, st.state)
          IN CASE neighbor_state = "Far" ->
                    LET ins == insert(st.nb, <<distance, neighbor_index>>)
                    IN [distance |-> SetCell(st.distance, size, neighbor_index,
                                             distance),
                        state |-> SetCell(st.state, size, neighbor_index,
                                          "NarrowBand"),
                        nb |-> ins.nb, err |-> ins.err,
                        tripped |-> st.tripped \cup SolveAsserts(distance)]
               [] neighbor_state = "NarrowBand" ->
                    IF FLt(distance, Cell(st.distance, size, neighbor_index))
                    THEN [st EXCEPT
                            !.distance = SetCell(st.distance, size,
                                                 neighbor_index, distance),
                            !.tripped = @ \cup SolveAsserts(distance)]
                    ELSE [st EXCEPT !.tripped = @ \cup SolveAsserts(distance)]
               [] neighbor_state = "Frozen" -> st

\* UpdateNeighbor with <= for < in the NarrowBand case.
UpdateNeighborLe(st, m, index, normal, pred, size, dx, speed) ==
  LET neighbor_offset == NeighborhoodOffsets(Len(size))[m]
      neighbor_index == IndexPlus(index, neighbor_offset)
  IN IF st.err # "none" THEN st
     ELSE IF ~NeighborPred(pred, normal, neighbor_offset) THEN st
     ELSE IF ~inside(neighbor_index, size) THEN st
     ELSE LET neighbor_state == Cell(st.state, size, neighbor_index)
              distance == solve(neighbor_index, size, dx, speed,
                                st.distance, st.state)
          IN CASE neighbor_state = "Far" ->
                    LET ins == insert(st.nb, <<distance, neighbor_index>>)
                    IN [distance |-> SetCell(st.distance, size, neighbor_index,
                                             distance),
                        state |-> SetCell(st.state, size, neighbor_index,
                                          "NarrowBand"),
                        nb |-> ins.nb, err |-> ins.err,
                        tripped |-> st.tripped \cup SolveAsserts(distance)]
               [] neighbor_state = "NarrowBand" ->
                    IF FLe(distance, Cell(st.distance, size, neighbor_index))
                    THEN LET dec == decrease_distance(st.nb, neighbor_index,
                                                      distance)
                         IN [distance |-> IF dec.err = "none"
                                          THEN SetCell(st.distance, size,
                                                       neighbor_index, distance)
                                          ELSE st.distance,
                             state |-> st.state,
                             nb |-> dec.nb, err |-> dec.err,
                             tripped |-> st.tripped \cup SolveAsserts(distance)]
                    ELSE [st EXCEPT !.tripped = @ \cup SolveAsserts(distance)]
               [] neighbor_state = "Frozen" -> st

\* UpdateNeighbor that inserts a NarrowBand neighbor as it does a Far one.
UpdateNeighborInsertAgain(st, m, index, normal, pred, size, dx, speed) ==
  LET neighbor_offset == NeighborhoodOffsets(Len(size))[m]
      neighbor_index == IndexPlus(index, neighbor_offset)
  IN IF st.err # "none" THEN st
     ELSE IF ~NeighborPred(pred, normal, neighbor_offset) THEN st
     ELSE IF ~inside(neighbor_index, size) THEN st
     ELSE LET neighbor_state == Cell(st.state, size, neighbor_index)
              distance == solve(neighbor_index, size, dx, speed,
                                st.distance, st.state)
          IN IF neighbor_state = "Frozen" THEN st
             ELSE LET ins == insert(st.nb, <<distance, neighbor_index>>)
                  IN [distance |-> SetCell(st.distance, size, neighbor_index,
                                           distance),
                      state |-> SetCell(st.state, size, neighbor_index,
                                        "NarrowBand"),
                      nb |-> ins.nb, err |-> ins.err,
                      tripped |-> st.tripped \cup SolveAsserts(distance)]

\* One pass of the loop of updateNeighbors, for the m-th offset.  st holds
\* the buffers and the store, the exception thrown so far and the solve
\* assertions tripped so far; after an exception nothing more is done.
UpdateNeighbor(st, m, index, normal, pred, size, dx, speed) ==
  LET neighbor_offset == NeighborhoodOffsets(Len(size))[m]
      neighbor_index == IndexPlus(index, neighbor_offset)
  IN IF st.err # "none" THEN st
     ELSE IF ~NeighborPred(pred, normal, neighbor_offset) THEN st
     ELSE IF ~inside(neighbor_index, size) THEN st
     ELSE LET neighbor_state == Cell(st.state, size, neighbor_index)
              distance == solve(neighbor_index, size, dx, speed,
                                st.distance, st.state)
          IN CASE neighbor_state = "Far" ->
                    LET ins == insert(st.nb, <<distance, neighbor_index>>)
                    IN [distance |-> SetCell(st.distance, size, neighbor_index,
                                             distance),
                        state |-> SetCell(st.state, size, neighbor_index,
                                          "NarrowBand"),
                        nb |-> ins.nb, err |-> ins.err,
                        tripped |-> st.tripped \cup SolveAsserts(distance)]
               [] neighbor_state = "NarrowBand" ->
                    IF FLt(distance, Cell(st.distance, size, neighbor_index))
                    THEN LET dec == decrease_distance(st.nb, neighbor_index,
                                                      distance)
                         IN [distance |-> IF dec.err = "none"
                                          THEN SetCell(st.distance, size,
                                                       neighbor_index, distance)
                                          ELSE st.distance,
                             state |-> st.state,
                             nb |-> dec.nb, err |-> dec.err,
                             tripped |-> st.tripped \cup SolveAsserts(distance)]
                    ELSE [st EXCEPT !.tripped = @ \cup SolveAsserts(distance)]
               [] neighbor_state = "Frozen" -> st

RECURSIVE updateNeighborsFrom(_, _, _, _, _, _, _, _)
updateNeighborsFrom(st, m, index, normal, pred, size, dx, speed) ==
  IF m > 2 * Len(size) THEN st
  ELSE updateNeighborsFrom(
         UpdateNeighbor(st, m, index, normal, pred, size, dx, speed),
         m + 1, index, normal, pred, size, dx, speed)

updateNeighbors(index, normal, pred, size, dx, speed, distance_buffer, state_buffer, nb) ==
  updateNeighborsFrom(
    [distance |-> distance_buffer, state |-> state_buffer, nb |-> nb,
     err |-> "none", tripped |-> {}],
    1, index, normal, pred, size, dx, speed)

(***************************************************************************)
(* The calls explored: the arguments of one call of a driver.              *)
(***************************************************************************)
MaxSize1D == 5
MaxSize2D == 3

Call(fn, size, dx, speed, frozen_indices, frozen_distances, normals) ==
  [fn |-> fn, size |-> size, dx |-> dx, speed |-> speed,
   frozen_indices |-> frozen_indices, frozen_distances |-> frozen_distances,
   normals |-> normals]

Drivers == {"unsignedDistance", "signedDistance"}

SeedDistances == {-2 * Scale, 0, 3 * Scale}
SeedDistancePairs == {<<0, 0>>, <<0, 3 * Scale>>, <<-2 * Scale, 0>>}

\* 1-D grids, one seed anywhere, any spacing and speed of 1 or 2.
Calls1DOneSeed ==
  {Call(fn, <<s>>, <<dx>>, speed, <<<<p>>>>, <<d>>, <<<<n>>>>) :
     fn \in Drivers, s \in 1..MaxSize1D, dx \in {1, 2}, speed \in {1, 2},
     p \in 0..(MaxSize1D - 1), d \in SeedDistances,
     n \in {Scale, -Scale, 0, NaN}}

\* 1-D grids, two seeds (the same index twice included).
Calls1DTwoSeeds ==
  {Call(fn, <<s>>, <<1>>, 1, <<<<p>>, <<r>>>>, d, <<<<n1>>, <<n2>>>>) :
     fn \in Drivers, s \in 2..MaxSize1D,
     p \in 0..(MaxSize1D - 1), r \in 0..(MaxSize1D - 1),
     d \in SeedDistancePairs,
     n1 \in {Scale, -Scale, NaN}, n2 \in {Scale, -Scale, NaN}}

Normals2D == {<<Scale, 0>>, <<-Scale, 0>>, <<Scale, Scale>>}

\* 2-D grids two or three cells high, one seed anywhere.
Calls2DOneSeed ==
  {Call(fn, <<a, b>>, dx, 1, <<p>>, <<d>>, <<n>>) :
     fn \in Drivers, a \in 2..MaxSize2D, b \in {2, 3},
     dx \in {<<1, 1>>, <<1, 2>>},
     p \in Indices(<<MaxSize2D, 3>>), d \in {0, 3 * Scale},
     n \in Normals2D \cup {<<0, Scale>>, <<0, 0>>}}

\* 2-D grids two cells high, two seeds at different indices.
Calls2DTwoSeeds ==
  {c \in {Call(fn, <<a, 2>>, <<1, 1>>, 1, <<p, r>>, d, <<n1, n2>>) :
            fn \in Drivers, a \in 2..MaxSize2D,
            p \in Indices(<<MaxSize2D, 2>>), r \in Indices(<<MaxSize2D, 2>>),
            d \in SeedDistancePairs, n1 \in Normals2D, n2 \in Normals2D} :
     c.frozen_indices[1] # c.frozen_indices[2]}

\* The 2-D single seed scenario on a 5 x 5 grid.
CallsScenario ==
  {Call(fn, <<5, 5>>, <<1, 1>>, 1, <<<<2, 2>>>>, <<0>>, <<<<Scale, 0>>>>) :
     fn \in Drivers}

\* Calls that break one or several of the preconditions, and calls that
\* pass no seed at all.
CallsInvalid ==
  {Call(fn, <<s>>, <<dx>>, speed, idx, dist, nrm) :
     fn \in Drivers, s \in {0, 3}, dx \in {0, -1, 1}, speed \in {0, 1},
     idx \in {<<>>, <<<<1>>>>, <<<<3>>>>, <<<<-1>>>>, <<<<1>>, <<0>>>>},
     dist \in {<<>>, <<0>>, <<NaN>>, <<Scale, NaN>>},
     nrm \in {<<>>, <<<<Scale>>>>, <<<<Scale \div 10>>>>, <<<<0>>>>,
              <<<<Scale>>, <<49>>>>}}

Calls ==
  {c \in Calls1DOneSeed \cup Calls1DTwoSeeds \cup Calls2DOneSeed
           \cup Calls2DTwoSeeds :
     \A k \in 1..Len(c.frozen_indices) : inside(c.frozen_indices[k], c.size)}
  \cup CallsScenario \cup CallsInvalid

(***************************************************************************)
(* The drivers as a state machine.  input is the call's arguments; pc the  *)
(* place in the driver; sweep the sweep under way; i the seed the loop of  *)
(* initializeNarrowBand is at.  state_buffer, inside_distance_buffer,      *)
(* outside_distance_buffer and distance_buffer are the driver's vectors    *)
(* (unsignedDistance has distance_buffer alone, which it returns), <<>>    *)
(* while not created.  narrow_band is the sweep's store.  error is the     *)
(* exception the call ended with.  linear_size is what linearSize gave    *)
(* for the buffers, <<>> before.  tripped and pops are history: the        *)
(* assertions of solve that a build without NDEBUG would have aborted on   *)
(* and that the run went past, and the values popped so far.               *)
(***************************************************************************)
VARIABLES input, pc, sweep, i, linear_size, state_buffer, distance_buffer,
          inside_distance_buffer, outside_distance_buffer, narrow_band,
          error, tripped, pops

vars == <<input, pc, sweep, i, linear_size, state_buffer, distance_buffer,
          inside_distance_buffer, outside_distance_buffer, narrow_band,
          error, tripped, pops>>

Init ==
  /\ input \in Calls
  /\ pc = "start"
  /\ sweep = "inside"
  /\ i = 0
  /\ linear_size = <<>>
  /\ state_buffer = <<>>
  /\ distance_buffer = <<>>
  /\ inside_distance_buffer = <<>>
  /\ outside_distance_buffer = <<>>
  /\ narrow_band = EmptyStore
  /\ error = "none"
  /\ tripped = {}
  /\ pops = <<>>

Unsigned == input.fn = "unsignedDistance"

\* The distance buffer the sweep under way works on.
SweepDistance ==
  IF Unsigned THEN distance_buffer
  ELSE IF sweep = "inside" THEN inside_distance_buffer
  ELSE outside_distance_buffer

SetSweepDistance(b) ==
  /\ distance_buffer' = IF Unsigned THEN b ELSE distance_buffer
  /\ inside_distance_buffer' =
       IF ~Unsigned /\ sweep = "inside" THEN b ELSE inside_distance_buffer
  /\ outside_distance_buffer' =
       IF ~Unsigned /\ sweep = "outside" THEN b ELSE outside_distance_buffer

FilledBuffer(size, v) == [k \in 1..SizeTValue(linearSize(size)) |-> v]

\* The sign multiplier initializeFrozenCells is called with in a sweep.
Multiplier(sw) == IF sw = "inside" THEN -1 ELSE 1

\* The checks at the head of the driver.
Validate ==
  /\ pc = "start"
  /\ error' = ValidationError(input)
  /\ pc' = IF ValidationError(input) = "none" THEN "validated" ELSE "failed"
  /\ UNCHANGED <<input, linear_size, sweep, i, state_buffer, distance_buffer,
                 inside_distance_buffer, outside_distance_buffer, narrow_band,
                 tripped, pops>>

\* The state buffer, all Far, and the first distance buffer, all max().
Allocate ==
  /\ pc = "validated"
  /\ linear_size' = linearSize(input.size)
  /\ state_buffer' = FilledBuffer(input.size, "Far")
  /\ sweep' = "inside"
  /\ SetSweepDistance(FilledBuffer(input.size, DistMax))
  /\ pc' = "freeze"
  /\ UNCHANGED <<input, i, narrow_band, error, tripped, pops>>

\* FreezeSeeds with a state buffer of its own for each sweep.
FreezeSeedsFreshState ==
  /\ pc = "freeze"
  /\ LET fresh == IF ~Unsigned /\ sweep = "outside"
                  THEN FilledBuffer(input.size, DistMax)
                  ELSE SweepDistance
         g == initializeFrozenCells(input.frozen_indices,
                                    input.frozen_distances, Multiplier(sweep),
                                    input.size, fresh,
                                    FilledBuffer(input.size, "Far"))
     IN /\ SetSweepDistance(g.distance)
        /\ state_buffer' = g.state
  /\ narrow_band' = EmptyStore
  /\ i' = 0
  /\ pc' = "expand"
  /\ UNCHANGED <<input, linear_size, sweep, error, tripped, pops>>

\* A sweep begins: signedDistance makes the outside buffer, the seeds are
\* frozen at multiplier * distance, and initializeNarrowBand makes a store.
FreezeSeeds ==
  /\ pc = "freeze"
  /\ LET fresh == IF ~Unsigned /\ sweep = "outside"
                  THEN FilledBuffer(input.size, DistMax)
                  ELSE SweepDistance
         g == initializeFrozenCells(input.frozen_indices,
                                    input.frozen_distances, Multiplier(sweep),
                                    input.size, fresh, state_buffer)
     IN /\ SetSweepDistance(g.distance)
        /\ state_buffer' = g.state
  /\ narrow_band' = EmptyStore
  /\ i' = 0
  /\ pc' = "expand"
  /\ UNCHANGED <<input, linear_size, sweep, error, tripped, pops>>

\* A build with assertions stops at the first one that fails.
Abort(asserts) ==
  /\ pc' = "aborted"
  /\ tripped' = asserts
  /\ UNCHANGED <<input, linear_size, sweep, i, state_buffer, distance_buffer,
                 inside_distance_buffer, outside_distance_buffer, narrow_band,
                 error, pops>>

\* The run goes on from the outcome st of updateNeighbors, to the place
\* next unless the store threw.
Resume(st, asserts, next) ==
  /\ SetSweepDistance(st.distance)
  /\ state_buffer' = st.state
  /\ narrow_band' = st.nb
  /\ tripped' = tripped \cup asserts
  /\ error' = st.err
  /\ pc' = IF st.err = "none" THEN next ELSE "failed"

\* One pass of the loop of initializeNarrowBand: updateNeighbors of seed
\* i under the sweep's predicate.
ExpandSeed ==
  /\ pc = "expand"
  /\ i < Len(input.frozen_indices)
  /\ LET st == updateNeighbors(input.frozen_indices[i + 1],
                               input.normals[i + 1], sweep, input.size,
                               input.dx, input.speed, SweepDistance,
                               state_buffer, narrow_band)
     IN \/ /\ st.tripped # {}
           /\ tripped = {}
           /\ Abort(st.tripped)
        \/ /\ Resume(st, st.tripped, "expand")
           /\ i' = i + 1
           /\ UNCHANGED <<input, linear_size, sweep, pops>>

\* CheckNarrowBand without the throw.
CheckNarrowBandNoThrow ==
  /\ pc = "expand"
  /\ i = Len(input.frozen_indices)
  /\ pc' = "march"
  /\ UNCHANGED <<input, linear_size, sweep, i, state_buffer, distance_buffer,
                 inside_distance_buffer, outside_distance_buffer, narrow_band,
                 error, tripped, pops>>

\* The end of initializeNarrowBand: an empty store is an error.
CheckNarrowBand ==
  /\ pc = "expand"
  /\ i = Len(input.frozen_indices)
  /\ pc' = IF empty(narrow_band) THEN "failed" ELSE "march"
  /\ error' = IF empty(narrow_band) THEN "EmptyNarrowBand" ELSE error
  /\ UNCHANGED <<input, linear_size, sweep, i, state_buffer, distance_buffer,
                 inside_distance_buffer, outside_distance_buffer, narrow_band,
                 tripped, pops>>

DummyNormal == [k \in 1..Len(input.size) |-> NaN]

\* One pass of the loop of marchNarrowBand: pop, freeze, updateNeighbors.
MarchStep ==
  /\ pc = "march"
  /\ ~empty(narrow_band)
  /\ LET popped == pop(narrow_band)
         distance == popped.ret[1]
         index == popped.ret[2]
         asserted == IF Cell(state_buffer, input.size, index) = "NarrowBand"
                     THEN {}
                     ELSE {"state_grid->cell(index) == CellState::NarrowBand"}
         st == updateNeighbors(index, DummyNormal, "march", input.size,
                               input.dx, input.speed,
                               SetCell(SweepDistance, input.size, index, distance),
                               SetCell(state_buffer, input.size, index, "Frozen"),
                               popped.nb)
     IN \/ /\ asserted \cup st.tripped # {}
           /\ tripped = {}
           /\ Abort(asserted \cup st.tripped)
        \/ /\ Resume(st, asserted \cup st.tripped, "march")
           /\ pops' = Append(pops, <<sweep, distance, index>>)
           /\ UNCHANGED <<input, linear_size, sweep, i>>

\* The store is empty: the inside sweep is followed by the outside sweep,
\* the outside sweep by the composition of the result.
MarchDone ==
  /\ pc = "march"
  /\ empty(narrow_band)
  /\ pc' = IF sweep = "inside" THEN "freeze" ELSE "compose"
  /\ sweep' = "outside"
  /\ UNCHANGED <<input, linear_size, i, state_buffer, distance_buffer,
                 inside_distance_buffer, outside_distance_buffer, narrow_band,
                 error, tripped, pops>>

RECURSIVE SetFrozenCellsFrom(_, _, _, _, _)
SetFrozenCellsFrom(buffer, k, frozen_indices, values, size) ==
  IF k > Len(frozen_indices) THEN buffer
  ELSE SetFrozenCellsFrom(SetCell(buffer, size, frozen_indices[k], values[k]),
                          k + 1, frozen_indices, values, size)

\* UnsignedResult without the fabs.
UnsignedResultSigned(buffer, frozen_indices, frozen_distances, size) ==
  SetFrozenCellsFrom(buffer, 1, frozen_indices, frozen_distances, size)

\* The last loop of unsignedDistance: fabs of the seed's distance.
UnsignedResult(buffer, frozen_indices, frozen_distances, size) ==
  SetFrozenCellsFrom(buffer, 1, frozen_indices,
                     [k \in 1..Len(frozen_distances) |-> fabs(frozen_distances[k])],
                     size)

\* MergeSweeps with the inside values copied as they are.
MergeSweepsNoNegation(inside_buffer, outside_buffer) ==
  [k \in 1..Len(inside_buffer) |->
     IF FLt(outside_buffer[k], DistMax) THEN outside_buffer[k]
     ELSE IF FLt(inside_buffer[k], DistMax) THEN inside_buffer[k]
     ELSE DistMax]

\* The two loops of signedDistance that fill distance_buffer, the outside
\* values written last.
MergeSweeps(inside_buffer, outside_buffer) ==
  [k \in 1..Len(inside_buffer) |->
     IF FLt(outside_buffer[k], DistMax) THEN outside_buffer[k]
     ELSE IF FLt(inside_buffer[k], DistMax) THEN FMul(-1, inside_buffer[k])
     ELSE DistMax]

\* The result of signedDistance: the merge, then the seeds' own distances.
SignedResult(inside_buffer, outside_buffer, frozen_indices, frozen_distances,
             size) ==
  SetFrozenCellsFrom(MergeSweeps(inside_buffer, outside_buffer), 1,
                     frozen_indices, frozen_distances, size)

\* The driver returns distance_buffer.
Compose ==
  /\ pc = "compose"
  /\ distance_buffer' =
       IF Unsigned
       THEN UnsignedResult(distance_buffer, input.frozen_indices,
                           input.frozen_distances, input.size)
       ELSE SignedResult(inside_distance_buffer, outside_distance_buffer,
                         input.frozen_indices, input.frozen_distances,
                         input.size)
  /\ pc' = "done"
  /\ UNCHANGED <<input, linear_size, sweep, i, state_buffer, inside_distance_buffer,
                 outside_distance_buffer, narrow_band, error, tripped, pops>>

Next ==
  \/ Validate
  \/ Allocate
  \/ FreezeSeeds
  \/ ExpandSeed
  \/ CheckNarrowBand
  \/ MarchStep
  \/ MarchDone
  \/ Compose

Spec == Init /\ [][Next]_vars

(***************************************************************************)
(* linearSize on grids too large to allocate here: the driver checks its   *)
(* arguments and calls linearSize(size) for its first buffer.              *)
(***************************************************************************)
LargeExtents == {1, 2, 3, 255, 256, 32768, 46341, 65536, 2147483647}

CallsLarge ==
  {Call(fn, size, [j \in 1..Len(size) |-> 1], 1,
        <<[j \in 1..Len(size) |-> 0]>>, <<0>>,
        <<[j \in 1..Len(size) |-> Scale]>>) :
     fn \in Drivers,
     size \in {<<a>> : a \in LargeExtents}
              \cup {<<a, b>> : a \in LargeExtents, b \in LargeExtents}}

InitLinearSize ==
  /\ input \in CallsLarge
  /\ pc = "start"
  /\ sweep = "inside"
  /\ i = 0
  /\ linear_size = <<>>
  /\ state_buffer = <<>>
  /\ distance_buffer = <<>>
  /\ inside_distance_buffer = <<>>
  /\ outside_distance_buffer = <<>>
  /\ narrow_band = EmptyStore
  /\ error = "none"
  /\ tripped = {}
  /\ pops = <<>>

\* The call of linearSize for the state buffer.
CountCells ==
  /\ pc = "validated"
  /\ linear_size' = linearSize(input.size)
  /\ pc' = "counted"
  /\ UNCHANGED <<input, sweep, i, state_buffer, distance_buffer,
                 inside_distance_buffer, outside_distance_buffer, narrow_band,
                 error, tripped, pops>>

NextLinearSize == Validate \/ CountCells

SpecLinearSize == InitLinearSize /\ [][NextLinearSize]_vars

(***************************************************************************)
(* NarrowBandStore on its own: any public operation, with any arguments,   *)
(* in any order.  error is the exception of the last operation and pops    *)
(* the value the last pop returned.                                        *)
(***************************************************************************)
MaxHeapIndex == 3

HeapIndices == {<<k>> : k \in 0..MaxHeapIndex}
HeapDistances == {0, Scale, NaN}

InitHeap ==
  /\ input = Call("NarrowBandStore", <<MaxHeapIndex + 1>>, <<1>>, 1,
                  <<>>, <<>>, <<>>)
  /\ pc = "store"
  /\ sweep = "inside"
  /\ i = 0
  /\ linear_size = <<>>
  /\ state_buffer = <<>>
  /\ distance_buffer = <<>>
  /\ inside_distance_buffer = <<>>
  /\ outside_distance_buffer = <<>>
  /\ narrow_band = EmptyStore
  /\ error = "none"
  /\ tripped = {}
  /\ pops = <<>>

\* The store and the exception after an operation that gave r.
StoreAfter(r) ==
  /\ narrow_band' = r.nb
  /\ error' = r.err
  /\ pops' = IF r.ret = <<>> THEN <<>> ELSE <<<<"store", r.ret[1], r.ret[2]>>>>
  /\ UNCHANGED <<input, pc, sweep, i, linear_size, state_buffer,
                 distance_buffer, inside_distance_buffer,
                 outside_distance_buffer, tripped>>

StoreInsert ==
  \E d \in HeapDistances, index \in HeapIndices :
     StoreAfter(insert(narrow_band, <<d, index>>))

StorePop == StoreAfter(pop(narrow_band))

StoreIncrease ==
  \E d \in HeapDistances, index \in HeapIndices :
     StoreAfter(increase_distance(narrow_band, index, d))

StoreDecrease ==
  \E d \in HeapDistances, index \in HeapIndices :
     StoreAfter(decrease_distance(narrow_band, index, d))

NextHeap == StoreInsert \/ StorePop \/ StoreIncrease \/ StoreDecrease

SpecHeap == InitHeap /\ [][NextHeap]_vars

(***************************************************************************)
(* Vocabulary of the properties                                            *)
(***************************************************************************)
Seeds == {input.frozen_indices[k] : k \in 1..Len(input.frozen_indices)}
NonSeeds == Indices(input.size) \ Seeds

\* The call has returned distance_buffer to the caller.
HasReturned == pc = "done"
\* The call has ended: returned, thrown, or aborted on an assertion.
HasEnded == pc \in {"done", "failed", "aborted"}

Result(index) == Cell(distance_buffer, input.size, index)

Finite(v) == v # DistMax /\ v # NaN

Adjacent(c, d) ==
  \E m \in 1..(2 * Len(input.size)) :
     d = IndexPlus(c, NeighborhoodOffsets(Len(input.size))[m])

RECURSIVE Flood(_)
Flood(S) ==
  LET more == {c \in NonSeeds \ S : \E d \in S : Adjacent(c, d)}
  IN IF more = {} THEN S ELSE Flood(S \cup more)

\* The non-seed cells joined, by a path of adjacent non-seed cells, to a
\* non-seed cell adjacent to a seed.
SeedConnected ==
  Flood({c \in NonSeeds : \E d \in Seeds : Adjacent(c, d)})

ValidationKinds ==
  {"InvalidSize", "InvalidSpacing", "InvalidSpeed", "SizeMismatch",
   "InvalidIndex", "InvalidDistance", "InvalidNormal"}

SeedsDistinct ==
  \A k, l \in 1..Len(input.frozen_indices) :
     k # l => input.frozen_indices[k] # input.frozen_indices[l]

\* Pops of one sweep, as the set of their places in pops.
PopsOf(sw) == {k \in 1..Len(pops) : pops[k][1] = sw}

(***************************************************************************)
(* C1.  When a driver returns, a non-seed cell holds a finite distance     *)
(* exactly if it is joined, by a path of adjacent non-seed cells, to a     *)
(* non-seed cell adjacent to a seed, and every other non-seed cell holds   *)
(* the sentinel DistMax.                                                   *)
(***************************************************************************)
C1_ReachableCellsFinite ==
  HasReturned =>
    \A c \in NonSeeds :
       /\ Finite(Result(c)) <=> c \in SeedConnected
       /\ c \notin SeedConnected => Result(c) = DistMax

(***************************************************************************)
(* C2.  unsignedDistance on the two 2-D single seed scenarios returns, and *)
(* the buffer holds: on the 5 x 5 grid a value within 5% of 2 * sqrt(2)    *)
(* at cell (0,0); on the 3 x 3 grid with spacing (1,2) the value 2 at      *)
(* cell (1,0) and 1 at cell (0,1).                                         *)
(***************************************************************************)
Scenario5x5 ==
  Call("unsignedDistance", <<5, 5>>, <<1, 1>>, 1, <<<<2, 2>>>>, <<0>>,
       <<<<Scale, 0>>>>)
Scenario3x3 ==
  Call("unsignedDistance", <<3, 3>>, <<1, 2>>, 1, <<<<1, 1>>>>, <<0>>,
       <<<<Scale, 0>>>>)

\* 2 * sqrt(2) in units of 1/Scale, to the nearest unit.
TwoSqrtTwo == Sqrt(8 * squared(Scale))

C2_SingleSeed2D ==
  /\ input = Scenario5x5 /\ HasEnded =>
       /\ HasReturned
       /\ 20 * Abs(Result(<<0, 0>>) - TwoSqrtTwo) <= TwoSqrtTwo
  /\ input = Scenario3x3 /\ HasEnded =>
       /\ HasReturned
       /\ Result(<<1, 0>>) = 2 * Scale
       /\ Result(<<0, 1>>) = Scale

(***************************************************************************)
(* C3.  signedDistance on a 1-D grid of size s >= 3, spacing dx > 0 and    *)
(* speed F > 0, with one seed at an interior index p, distance 0 and       *)
(* normal (+1), returns result[k] = (k - p) * dx / F for every cell k; with *)
(* normal (-1) it returns (p - k) * dx / F.                                *)
(***************************************************************************)
OneInteriorSeed1D ==
  /\ Len(input.size) = 1 /\ input.size[1] >= 3
  /\ Len(input.dx) = 1 /\ input.dx[1] > 0 /\ input.speed > 0
  /\ Len(input.frozen_indices) = 1
  /\ input.frozen_indices[1][1] > 0
  /\ input.frozen_indices[1][1] < input.size[1] - 1
  /\ input.frozen_distances = <<0>>
  /\ input.normals \in {<<<<Scale>>>>, <<<<-Scale>>>>}

C5_SeedFidelity ==
  HasReturned /\ SeedsDistinct =>
    \A k \in 1..Len(input.frozen_indices) :
       distance_buffer[linearIndex_(input.frozen_indices[k], input.size) + 1] =
         IF Unsigned THEN Abs(input.frozen_distances[k])
         ELSE input.frozen_distances[k]

C5_Witness ==
  /\ HasReturned /\ SeedsDistinct /\ Unsigned
  /\ Len(input.frozen_indices) = 2
  /\ input.frozen_distances[1] < 0
  /\ Result(input.frozen_indices[1]) = 2 * Scale

(***************************************************************************)
(* C6.  Every distance the solver computes is >= 0: the assertion          *)
(* r.first >= T(0) of solve fails at no call, and every value other than   *)
(* the sentinel in the buffer unsignedDistance returns is >= 0.            *)
(***************************************************************************)
C6_SolverNonNegative ==
  /\ "r.first >= T(0)" \notin tripped
  /\ HasReturned /\ Unsigned =>
       \A k \in 1..Len(distance_buffer) :
          distance_buffer[k] # DistMax => FGe(distance_buffer[k], 0)

(***************************************************************************)
(* C7.  When signedDistance returns, every non-seed cell frozen during the *)
(* inside sweep holds a value <= 0 and every non-seed cell frozen during   *)
(* the outside sweep holds a value >= 0.                                   *)
(***************************************************************************)
C7_SignBySweep ==
  HasReturned /\ ~Unsigned =>
    \A k \in 1..Len(pops) :
       pops[k][3] \in NonSeeds =>
         IF pops[k][1] = "inside" THEN FLe(Result(pops[k][3]), 0)
         ELSE FGe(Result(pops[k][3]), 0)

(***************************************************************************)
(* C8.  In each sweep, when seed expansion has ended: if no in-grid        *)
(* neighbour of a seed that the sweep's predicate accepts was open to the  *)
(* band (all of them Frozen), the store is empty, the call fails with      *)
(* EmptyNarrowBand and nothing is popped; otherwise the store is not       *)
(* empty and the sweep marches.  EmptyNarrowBand is raised at no other     *)
(* place, and nothing runs after a failure.                                *)
(***************************************************************************)
\* The accepted in-grid neighbours of the seeds that are not Frozen.  At the
\* start of the expansion they are the Far ones: the expansion turns Far
\* cells into NarrowBand cells and freezes none.
AcceptedOpen ==
  {n \in Indices(input.size) :
     /\ Cell(state_buffer, input.size, n) # "Frozen"
     /\ \E k \in 1..Len(input.frozen_indices) :
          \E m \in 1..(2 * Len(input.size)) :
             /\ NeighborPred(sweep, input.normals[k],
                             NeighborhoodOffsets(Len(input.size))[m])
             /\ n = IndexPlus(input.frozen_indices[k],
                              NeighborhoodOffsets(Len(input.size))[m])}

ExpansionEnded == pc = "expand" /\ i = Len(input.frozen_indices)

C8_EmptyNarrowBand ==
  [][/\ ExpansionEnded =>
          IF AcceptedOpen = {}
          THEN /\ empty(narrow_band)
               /\ pc' = "failed" /\ error' = "EmptyNarrowBand"
               /\ pops' = pops
          ELSE /\ ~empty(narrow_band)
               /\ pc' = "march" /\ error' = "none"
     /\ error' = "EmptyNarrowBand" => ExpansionEnded
     /\ pc # "failed"]_vars

C8_Witness ==
  /\ pc = "failed" /\ error = "EmptyNarrowBand"
  /\ sweep = "inside" /\ pops = <<>>
  /\ AcceptedOpen = {}
  /\ Len(input.frozen_indices) = 2 /\ Len(input.size) = 2

(***************************************************************************)
(* C9.  Both drivers check their arguments before they create a buffer or  *)
(* a store, in the order size, spacing, speed, lengths, indices,           *)
(* distances and, signedDistance only, normals; the call fails with the    *)
(* kind of the first check that is violated, and unsignedDistance never    *)
(* fails with InvalidNormal.  (A normal is invalid when its squared        *)
(* magnitude is below 0.25, which a NaN magnitude is not.)                 *)
(***************************************************************************)
FirstViolation ==
  CASE \E j \in 1..Len(input.size) : input.size[j] < 1 -> "InvalidSize"
    [] OTHER ->
  CASE \E j \in 1..Len(input.dx) : input.dx[j] <= 0 -> "InvalidSpacing"
    [] OTHER ->
  CASE input.speed <= 0 -> "InvalidSpeed"
    [] OTHER ->
  CASE \/ Len(input.frozen_indices) # Len(input.frozen_distances)
       \/ Len(input.frozen_indices) # Len(input.normals) -> "SizeMismatch"
    [] OTHER ->
  CASE \E k \in 1..Len(input.frozen_indices) :
          \E j \in 1..Len(input.size) :
             \/ input.frozen_indices[k][j] < 0
             \/ input.frozen_indices[k][j] >= input.size[j] -> "InvalidIndex"
    [] OTHER ->
  CASE \E k \in 1..Len(input.frozen_distances) :
          input.frozen_distances[k] = NaN -> "InvalidDistance"
    [] OTHER ->
  CASE /\ ~Unsigned
       /\ \E k \in 1..Len(input.normals) :
             /\ \A j \in 1..Len(input.normals[k]) : input.normals[k][j] # NaN
             /\ 4 * squaredMagnitude(input.normals[k]) < squared(Scale)
         -> "InvalidNormal"
    [] OTHER -> "none"

NothingCreated ==
  /\ state_buffer = <<>> /\ distance_buffer = <<>>
  /\ inside_distance_buffer = <<>> /\ outside_distance_buffer = <<>>
  /\ narrow_band = EmptyStore

C10_NoFailureAfterPop == pc = "failed" => pops = <<>>

(***************************************************************************)
(* C10, amended.  Every failure reported to the caller is raised before    *)
(* the first cell is popped from the outside sweep's narrow band: a        *)
(* validation failure before anything is created, EmptyNarrowBand in the   *)
(* inside sweep before any pop or in the outside sweep when the inside     *)
(* march has ended; no other failure is reported.                          *)
(***************************************************************************)
C10_NoFailureAfterOutsidePop ==
  pc = "failed" =>
    /\ PopsOf("outside") = {}
    /\ error \in ValidationKinds \cup {"EmptyNarrowBand"}
    /\ error \in ValidationKinds => pops = <<>> /\ NothingCreated
    /\ error = "EmptyNarrowBand" /\ sweep = "inside" => pops = <<>>
    /\ error = "EmptyNarrowBand" /\ sweep = "outside" =>
         \A n \in Indices(input.size) :
            Cell(state_buffer, input.size, n) # "NarrowBand"

C10_Witness ==
  /\ pc = "failed" /\ error = "EmptyNarrowBand" /\ sweep = "outside"
  /\ Len(pops) >= 3

(***************************************************************************)
(* C11.  For sizes whose entries are all >= 1, the number of cells         *)
(* linearSize gives the drivers is the exact product of the entries as a   *)
(* std::size_t, also when the product is past 2^31 - 1.                    *)
(***************************************************************************)
\* The product of the entries modulo 2^64.
RECURSIVE ProductFrom(_, _)
ProductFrom(a, k) ==
  IF k > Len(a) THEN ToBytes(1, SizeOfSizeT)
  ELSE multiplies(ToBytes(a[k], SizeOfSizeT), ProductFrom(a, k + 1))

C11_LinearSizeExact ==
  linear_size # <<>> => linear_size = ProductFrom(input.size, 1)

(***************************************************************************)
(* C12.  After every public operation of the store, in any sequence:       *)
(* (I1) every entry's distance is >= its parent's, (I2) the map has        *)
(* exactly one key per entry and maps each entry's index to the position   *)
(* the entry is stored at, and no index is stored twice.                   *)
(***************************************************************************)
HeapOrdered(nb) ==
  \A pos \in 1..(Len(nb.values_) - 1) :
     FGe(nb.values_[pos + 1][1], nb.values_[parent_pos_(pos) + 1][1])

MapAgrees(nb) ==
  /\ DOMAIN nb.index_to_pos_ = {nb.values_[k][2] : k \in 1..Len(nb.values_)}
  /\ \A k \in 1..Len(nb.values_) : nb.index_to_pos_[nb.values_[k][2]] = k - 1
  /\ \A k, m \in 1..Len(nb.values_) :
        nb.values_[k][2] = nb.values_[m][2] => k = m

C12_HeapInvariants == HeapOrdered(narrow_band) /\ MapAgrees(narrow_band)

(***************************************************************************)
(* C13.  Within the march of each sweep, the distances of successive pops  *)
(* never decrease.                                                         *)
(***************************************************************************)
C13_PopsNonDecreasing ==
  \A k \in 1..(Len(pops) - 1) :
     pops[k][1] = pops[k + 1][1] => FLe(pops[k][2], pops[k + 1][2])

(***************************************************************************)
(* C14.  Within a call a cell's state changes only Far -> NarrowBand (it   *)
(* is next to a Frozen cell), NarrowBand -> Frozen (it is popped) or       *)
(* Far -> Frozen (it is a seed being frozen); a Frozen cell stays Frozen,  *)
(* through the change of sweep as well; and the value of a Frozen cell     *)
(* that is no seed is written in no distance buffer again.                 *)
(***************************************************************************)
\* The value of cell c is the same in buffer b before and after the step.
SameValue(b, after, c) ==
  b # <<>> /\ after # <<>> =>
    Cell(after, input.size, c) = Cell(b, input.size, c)

CellStep(c) ==
  LET before == Cell(state_buffer, input.size, c)
      after == Cell(state_buffer', input.size, c)
  IN /\ before = "Frozen" => after = "Frozen"
     /\ before = "Far" /\ after = "NarrowBand" =>
          \E d \in Indices(input.size) :
             Adjacent(c, d) /\ Cell(state_buffer', input.size, d) = "Frozen"
     /\ before = "NarrowBand" /\ after = "Frozen" =>
          /\ pc = "march"
          /\ Len(pops') = Len(pops) + 1
          /\ pops'[Len(pops')][1] = sweep /\ pops'[Len(pops')][3] = c
     /\ before = "Far" /\ after = "Frozen" => pc = "freeze" /\ c \in Seeds
     /\ before = "NarrowBand" => after # "Far"
     /\ before = "Frozen" /\ c \notin Seeds =>
          /\ SameValue(distance_buffer, distance_buffer', c)
          /\ SameValue(inside_distance_buffer, inside_distance_buffer', c)
          /\ SameValue(outside_distance_buffer, outside_distance_buffer', c)

C14_StateTransitions ==
  [][state_buffer # <<>> => \A c \in Indices(input.size) : CellStep(c)]_vars

C14_Witness ==
  /\ pc = "march" /\ sweep = "outside" /\ PopsOf("outside") # {}
  /\ PopsOf("inside") # {}
  /\ \E c \in NonSeeds : Cell(state_buffer, input.size, c) = "NarrowBand"

(***************************************************************************)
(* C15.  During a sweep, after each pass of seed expansion and before and  *)
(* after each pop-and-relax step of the march, the indices in the store    *)
(* are exactly the cells in state NarrowBand and each entry's distance is  *)
(* the cell's value in the sweep's distance buffer; the distance pop       *)
(* returns is the value the buffer already holds for the cell; and the     *)
(* value of a cell that stays NarrowBand never grows.                      *)
(***************************************************************************)
BandAgrees ==
  pc \in {"expand", "march"} =>
    /\ DOMAIN narrow_band.index_to_pos_ =
         {c \in Indices(input.size) :
            Cell(state_buffer, input.size, c) = "NarrowBand"}
    /\ \A k \in 1..Len(narrow_band.values_) :
          narrow_band.values_[k][1] =
            Cell(SweepDistance, input.size, narrow_band.values_[k][2])

PopGivesStored ==
  pc = "march" /\ Len(pops') = Len(pops) + 1 =>
    pops'[Len(pops')][2] =
      Cell(SweepDistance, input.size, pops'[Len(pops')][3])

BandOnlyDecreases ==
  pc \in {"expand", "march"} /\ pc' \in {"expand", "march"} =>
    \A c \in Indices(input.size) :
       /\ Cell(state_buffer, input.size, c) = "NarrowBand"
       /\ Cell(state_buffer', input.size, c) = "NarrowBand"
       => \/ Cell(SweepDistance', input.size, c)
               = Cell(SweepDistance, input.size, c)
          \/ FLt(Cell(SweepDistance', input.size, c),
                 Cell(SweepDistance, input.size, c))

C15_BandIsNarrowBand ==
  [][BandAgrees /\ BandAgrees' /\ PopGivesStored /\ BandOnlyDecreases]_vars

\* A cell in the band that a seed put there in the expansion, and that the
\* march has since relaxed to a value at or below the seed's.
C15_Witness ==
  /\ pc = "march" /\ pops # <<>> /\ Len(input.size) = 1
  /\ \E c \in NonSeeds : \E k \in 1..Len(input.frozen_indices) :
        /\ Cell(state_buffer, input.size, c) = "NarrowBand"
        /\ Adjacent(c, input.frozen_indices[k])
        /\ NeighborPred(sweep, input.normals[k],
                        <<c[1] - input.frozen_indices[k][1]>>)
        /\ FLe(Cell(SweepDistance, input.size, c),
               Cell(SweepDistance, input.size, input.frozen_indices[k]))

(***************************************************************************)
(* C16.  For seeds at pairwise distinct indices that pass the checks, no   *)
(* operation of the store throws in either sweep: insert finds no index    *)
(* already stored, decrease_distance finds its index and a distance below  *)
(* the stored one, and pop is not called on an empty store.                *)
(***************************************************************************)
StoreErrors ==
  {"Empty", "DuplicateIndex", "NotFound", "NotIncreasing", "NotDecreasing"}

C16_NoStoreError ==
  SeedsDistinct =>
    /\ error \notin StoreErrors
    /\ pc = "failed" => error \in ValidationKinds \cup {"EmptyNarrowBand"}

C16_Witness ==
  /\ SeedsDistinct /\ Len(input.frozen_indices) = 2
  /\ pc = "march" /\ sweep = "outside" /\ PopsOf("inside") # {}
  /\ Len(narrow_band.values_) >= 2
  /\ \E c \in NonSeeds : Cell(state_buffer, input.size, c) = "Far"

(***************************************************************************)
(* C17.  For arguments that pass the checks, no call of solve in the seed  *)
(* expansion or in the march returns NaN: the assertion                    *)
(* !isnan(r.first) fails at no call.                                       *)
(***************************************************************************)
C17_SolveNeverNaN == "!isnan(r.first)" \notin tripped

(***************************************************************************)
(* C18.  Every call of solve is for a cell with an in-grid axis neighbour  *)
(* that is Frozen and holds a value other than the sentinel in the         *)
(* sweep's distance buffer, so that an axis adds to the quadratic          *)
(* (a > 0); in the outside sweep of signedDistance too.                    *)
(***************************************************************************)
\* The cells updateNeighbors(index, normal, pred) calls solve for.
SolvedCells(index, normal, pred, state) ==
  {n \in Indices(input.size) :
     /\ Cell(state, input.size, n) # "Frozen"
     /\ \E m \in 1..(2 * Len(input.size)) :
          /\ NeighborPred(pred, normal, NeighborhoodOffsets(Len(input.size))[m])
          /\ n = IndexPlus(index, NeighborhoodOffsets(Len(input.size))[m])}

\* solve for cell n finds a Frozen neighbour with a value, and an axis adds
\* to the quadratic.  (Within one updateNeighbors no cell becomes Frozen
\* and no Frozen cell's value changes.)
FrozenNeighborCounts(n, distance, state) ==
  /\ \E d \in Indices(input.size) :
        /\ Adjacent(n, d)
        /\ Cell(state, input.size, d) = "Frozen"
        /\ Cell(distance, input.size, d) # DistMax
  /\ Coefficients(n, input.size, input.dx, input.speed, distance, state).a > 0

C18_FrozenNeighborCounts ==
  /\ pc = "expand" /\ i < Len(input.frozen_indices) =>
       \A n \in SolvedCells(input.frozen_indices[i + 1], input.normals[i + 1],
                            sweep, state_buffer) :
          FrozenNeighborCounts(n, SweepDistance, state_buffer)
  /\ pc = "march" /\ ~empty(narrow_band) =>
       LET popped == pop(narrow_band).ret
           state == SetCell(state_buffer, input.size, popped[2], "Frozen")
           distance == SetCell(SweepDistance, input.size, popped[2], popped[1])
       IN \A n \in SolvedCells(popped[2], DummyNormal, "march", state) :
             FrozenNeighborCounts(n, distance, state)

(***************************************************************************)
(* C19.  The drivers, which run both sweeps on one state buffer, end as    *)
(* the same drivers would with a state buffer of its own (all Far) for     *)
(* each sweep: for arguments that pass the checks both fail or both        *)
(* return, and when they return every non-seed cell has the same value.    *)
(***************************************************************************)
\* The loop of initializeNarrowBand from seed k on.
RECURSIVE ExpandFrom(_, _, _)
ExpandFrom(st, k, sw) ==
  IF k > Len(input.frozen_indices) \/ st.err # "none" THEN st
  ELSE LET u == updateNeighbors(input.frozen_indices[k], input.normals[k], sw,
                                input.size, input.dx, input.speed,
                                st.distance, st.state, st.nb)
       IN ExpandFrom(u, k + 1, sw)

\* The loop of marchNarrowBand.
RECURSIVE MarchFrom(_)
MarchFrom(st) ==
  IF st.err # "none" \/ empty(st.nb) THEN st
  ELSE LET popped == pop(st.nb)
           u == updateNeighbors(popped.ret[2], DummyNormal, "march",
                                input.size, input.dx, input.speed,
                                SetCell(st.distance, input.size, popped.ret[2],
                                        popped.ret[1]),
                                SetCell(st.state, input.size, popped.ret[2],
                                        "Frozen"),
                                popped.nb)
       IN MarchFrom(u)

\* One sweep on a state buffer of its own, from the distance buffer given.
FreshSweep(sw, distance) ==
  LET g == initializeFrozenCells(input.frozen_indices, input.frozen_distances,
                                 Multiplier(sw), input.size, distance,
                                 FilledBuffer(input.size, "Far"))
      e == ExpandFrom([distance |-> g.distance, state |-> g.state,
                       nb |-> EmptyStore, err |-> "none", tripped |-> {}],
                      1, sw)
  IN IF e.err # "none" THEN e
     ELSE IF empty(e.nb) THEN [e EXCEPT !.err = "EmptyNarrowBand"]
     ELSE MarchFrom(e)

\* The call's end with a state buffer for each sweep: the exception, or
\* "none" and the buffer returned.
FreshCall ==
  LET sentinel == FilledBuffer(input.size, DistMax)
      in == FreshSweep("inside", sentinel)
      out == FreshSweep("outside", IF Unsigned THEN in.distance ELSE sentinel)
  IN IF in.err # "none" THEN [err |-> in.err, result |-> <<>>]
     ELSE IF out.err # "none" THEN [err |-> out.err, result |-> <<>>]
     ELSE [err |-> "none",
           result |->
             IF Unsigned
             THEN UnsignedResult(out.distance, input.frozen_indices,
                                 input.frozen_distances, input.size)
             ELSE SignedResult(in.distance, out.distance,
                               input.frozen_indices, input.frozen_distances,
                               input.size)]

C19_FreshStateEquivalent ==
  pc \in {"done", "failed"} /\ error \notin ValidationKinds =>
    /\ pc = "failed" <=> FreshCall.err # "none"
    /\ pc = "failed" => error = FreshCall.err
    /\ pc = "done" =>
         \A c \in NonSeeds :
            Result(c) = Cell(FreshCall.result, input.size, c)

(***************************************************************************)
(* C20.  In signedDistance no non-seed cell holds a value other than the   *)
(* sentinel in both the inside and the outside distance buffer, during     *)
(* the outside sweep and when the buffers are merged: the order of the     *)
(* two merge loops decides no non-seed cell's output.                      *)
(***************************************************************************)
\* The two merge loops in the other order: the inside values written last.
MergeInsideLast ==
  [k \in 1..Len(inside_distance_buffer) |->
     IF FLt(inside_distance_buffer[k], DistMax)
     THEN FMul(-1, inside_distance_buffer[k])
     ELSE IF FLt(outside_distance_buffer[k], DistMax)
          THEN outside_distance_buffer[k]
     ELSE DistMax]

C20_SweepsDisjoint ==
  ~Unsigned /\ outside_distance_buffer # <<>> =>
    /\ \A c \in NonSeeds :
          \/ Cell(inside_distance_buffer, input.size, c) = DistMax
          \/ Cell(outside_distance_buffer, input.size, c) = DistMax
    /\ pc \in {"compose", "done"} =>
         \A c \in NonSeeds :
            Cell(MergeInsideLast, input.size, c)
              = Cell(MergeSweeps(inside_distance_buffer,
                                 outside_distance_buffer), input.size, c)

C20_Witness ==
  /\ ~Unsigned /\ pc = "done" /\ Len(input.size) = 2
  /\ \E c \in NonSeeds :
        Cell(inside_distance_buffer, input.size, c) # DistMax
  /\ \E c \in NonSeeds :
        Cell(outside_distance_buffer, input.size, c) # DistMax

(***************************************************************************)
(* The effect of the store's operations on its entries                     *)
(***************************************************************************)
\* The (distance, index) pairs held in the array of a store.
Entries(nb) == {nb.values_[k] : k \in 1..Len(nb.values_)}

\* The indices the map of a store has a position for.
MapKeys(nb) == DOMAIN nb.index_to_pos_

\* A step that is a successful pop returning value.
PopReturned(value) ==
  /\ StorePop
  /\ pops' = <<<<"store", value[1], value[2]>>>>

PopIsMinimum ==
  \A value \in Entries(narrow_band) :
     PopReturned(value) => \A v \in Entries(narrow_band) : FLe(value[1], v[1])

PopRemovesOne ==
  \A value \in Entries(narrow_band) :
     PopReturned(value) =>
        /\ Len(narrow_band'.values_) = Len(narrow_band.values_) - 1
        /\ Entries(narrow_band') = Entries(narrow_band) \ {value}
        /\ MapKeys(narrow_band') = MapKeys(narrow_band) \ {value[2]}

ChangeDistanceOnly ==
  \A d \in HeapDistances, index \in HeapIndices :
     /\ \/ StoreAfter(decrease_distance(narrow_band, index, d))
        \/ StoreAfter(increase_distance(narrow_band, index, d))
     /\ error' = "none"
     => /\ Len(narrow_band'.values_) = Len(narrow_band.values_)
        /\ MapKeys(narrow_band') = MapKeys(narrow_band)
        /\ <<d, index>> \in Entries(narrow_band')
        /\ \A v \in Entries(narrow_band) :
              v[2] # index => v \in Entries(narrow_band')

InsertAddsOne ==
  \A d \in HeapDistances, index \in HeapIndices :
     /\ StoreAfter(insert(narrow_band, <<d, index>>))
     /\ error' = "none"
     => /\ Len(narrow_band'.values_) = Len(narrow_band.values_) + 1
        /\ Entries(narrow_band') = Entries(narrow_band) \cup {<<d, index>>}
        /\ MapKeys(narrow_band') = MapKeys(narrow_band) \cup {index}

\* C21. A pop of a non-empty store returns an entry whose distance is <=
\* the distance of every entry that was in the store, removes that entry
\* and no other from the array and from the map, and leaves the other
\* entries as they were; a successful decrease_distance or
\* increase_distance changes the distance of the named index and nothing
\* else; a successful insert adds one entry.
C21_StoreOperations ==
  [][PopIsMinimum /\ PopRemovesOne /\ ChangeDistanceOnly /\ InsertAddsOne]_vars

\* The part of C21 that does not compare distances.
C21_EntriesKept == [][PopRemovesOne /\ ChangeDistanceOnly /\ InsertAddsOne]_vars

(***************************************************************************)
(* The store's operations that throw                                       *)
(***************************************************************************)
\* The distance the store holds for index.
StoredDistance(nb, index) == nb.values_[nb.index_to_pos_[index] + 1][1]

\* The operation that gives r on the store throws e and changes nothing.
ThrowsKeeping(r, e) == r = Thrown(narrow_band, e)

InsertPresentThrows ==
  \A d \in HeapDistances, index \in MapKeys(narrow_band) :
     ThrowsKeeping(insert(narrow_band, <<d, index>>), "DuplicateIndex")

PopEmptyThrows ==
  empty(narrow_band) => ThrowsKeeping(pop(narrow_band), "Empty")

ChangeAbsentThrows ==
  \A d \in HeapDistances, index \in HeapIndices \ MapKeys(narrow_band) :
     /\ ThrowsKeeping(decrease_distance(narrow_band, index, d), "NotFound")
     /\ ThrowsKeeping(increase_distance(narrow_band, index, d), "NotFound")

DecreaseNotBelowThrows ==
  \A d \in HeapDistances, index \in MapKeys(narrow_band) :
     FGe(d, StoredDistance(narrow_band, index)) =>
        ThrowsKeeping(decrease_distance(narrow_band, index, d), "NotDecreasing")

IncreaseNotAboveThrows ==
  \A d \in HeapDistances, index \in MapKeys(narrow_band) :
     FLe(d, StoredDistance(narrow_band, index)) =>
        ThrowsKeeping(increase_distance(narrow_band, index, d), "NotIncreasing")

\* A step of the store that ends in an exception leaves the store as it
\* was and returns nothing.
ThrowKeepsStore ==
  error' # "none" => narrow_band' = narrow_band /\ pops' = <<>>

\* C22. Each operation of the store that fails reports its error and
\* leaves the array and the map as they were: insert of an index that is
\* present (DuplicateIndex), pop of an empty store (Empty),
\* decrease_distance or increase_distance of an absent index (NotFound),
\* decrease_distance with a new distance >= the stored one
\* (NotDecreasing) and increase_distance with a new distance <= the stored
\* one (NotIncreasing), the stored distance itself being rejected by both.
C22_FailuresKeepStore ==
  /\ [](/\ InsertPresentThrows
        /\ PopEmptyThrows
        /\ ChangeAbsentThrows
        /\ DecreaseNotBelowThrows
        /\ IncreaseNotAboveThrows)
  /\ [][ThrowKeepsStore]_vars

\* increase_distance has just thrown in a store of two entries or more,
\* which it left in heap order.
C22_Witness ==
  /\ error = "NotIncreasing"
  /\ Len(narrow_band.values_) >= 2
  /\ HeapOrdered(narrow_band)

(***************************************************************************)
(* Termination of the march                                                *)
(***************************************************************************)
\* A call runs on its caller's thread, without suspension, from its first
\* statement to its return, its throw or its abort: as long as the call
\* has not ended its next step is taken.  This is WF_vars(Next) with
\* ENABLED <<Next>>_vars written out: a step is possible exactly when the
\* call has not ended.
Fairness == []<>HasEnded \/ []<><<Next>>_vars

SpecLive == Init /\ [][Next]_vars /\ Fairness

\* The loop of marchNarrowBand is left with the store empty and every
\* cell Far or Frozen.
MarchLeftEmpty ==
  pc = "march" /\ pc' # "march" =>
     /\ empty(narrow_band')
     /\ \A c \in Indices(input.size) :
           Cell(state_buffer', input.size, c) # "NarrowBand"

\* The loop of marchNarrowBand is left in that way, or by the abort of a
\* failed assertion.
MarchLeftEmptyOrAborted == pc' = "aborted" \/ MarchLeftEmpty

\* No cell is popped twice in a call, in one sweep or in both, and the
\* cells popped are not seeds.
PoppedOnce ==
  /\ \A k, l \in 1..Len(pops) : k # l => pops[k][3] # pops[l][3]
  /\ \A k \in 1..Len(pops) : pops[k][3] \in NonSeeds
  /\ Len(pops) <= Cardinality(NonSeeds)

\* An index enters a store when its cell goes from Far to NarrowBand, and
\* a cell that has left Far stays out of it for the rest of the call.
InsertedOnce ==
  /\ \A c \in MapKeys(narrow_band') \ MapKeys(narrow_band) :
        /\ Cell(state_buffer, input.size, c) = "Far"
        /\ Cell(state_buffer', input.size, c) = "NarrowBand"
  /\ state_buffer # <<>> =>
        \A c \in Indices(input.size) :
           Cell(state_buffer, input.size, c) # "Far" =>
              Cell(state_buffer', input.size, c) # "Far"

\* C23. Every march terminates with an empty store and no cell left in
\* state NarrowBand; over a whole call, both sweeps together, a cell is
\* inserted into a store at most once and popped at most once, so that
\* the pops are at most as many as the cells that are not seeds.
C23_MarchTerminates ==
  /\ (pc = "march") ~> (pc # "march")
  /\ [][MarchLeftEmpty]_vars
  /\ []PoppedOnce
  /\ [][InsertedOnce]_vars

\* C23 for the builds that can stop a march on a failed assertion.
C23_MarchTerminatesOrAborts ==
  /\ (pc = "march") ~> (pc # "march")
  /\ [][MarchLeftEmptyOrAborted]_vars
  /\ []PoppedOnce
  /\ [][InsertedOnce]_vars

(***************************************************************************)
(* Seeds given more than once                                              *)
(***************************************************************************)
\* The call passes the argument checks with an index listed twice.
DuplicateSeeds == ValidationError(input) = "none" /\ ~SeedsDistinct

\* The distance listed last for the seed index c.
LastDistance(c) ==
  LET last == CHOOSE k \in 1..Len(input.frozen_indices) :
                 /\ input.frozen_indices[k] = c
                 /\ \A l \in (k + 1)..Len(input.frozen_indices) :
                       input.frozen_indices[l] # c
  IN input.frozen_distances[last]

====
